---- MODULE Spec2Model ----
(***************************************************************************)
(* Model of owrx/markers.py: the Markers singleton, its refresh thread,   *)
(* the cache store and the receiver-directory scrapers.                    *)
(***************************************************************************)
EXTENDS Integers, Sequences, FiniteSets, TLC

\* ------------------------------------------------------------------ bounds

\* Number of concurrent callers of Markers.start() / Markers.stop().
NumCallers == 2
\* Number of threading.Thread objects startThread may create in one run.
MaxTasks == 2
\* Number of hourly wake-ups of the main loop explored.
MaxHours == 2
\* Number of whole refresh periods the clock may jump.
MaxDays == 1

\* ------------------------------------------------------- program constants

\* self.refreshPeriod = 60*60*24 (seconds)
refreshPeriod == 86400
\* event.wait((60 - minute) * 60): at most one hour, in seconds
Hour == 3600
\* time.time() when the process starts: any value >= refreshPeriod
Epoch == 10 * refreshPeriod

Callers == 1..NumCallers
Tasks   == 1..MaxTasks

\* The explored clock values are Epoch + d * refreshPeriod + h * Hour.
DaysOf(tm)  == (tm - Epoch) \div refreshPeriod
HoursOf(tm) == ((tm - Epoch) % refreshPeriod) \div Hour

\* ------------------------------------------------------------ dictionaries

\* The empty dict {}.
EmptyMap == [k \in {} |-> 0]

\* dict.update(): entries of b overwrite those of a.
Update(a, b) ==
    [k \in (DOMAIN a) \cup (DOMAIN b) |-> IF k \in DOMAIN b THEN b[k] ELSE a[k]]

\* del d[key] for every key in ks.
Without(d, ks) == [k \in (DOMAIN d) \ ks |-> d[k]]

\* An Optional[dict]: None is [ok |-> FALSE].
None == [ok |-> FALSE, m |-> EmptyMap]
Some(m) == [ok |-> TRUE, m |-> m]

\* Python truthiness of an Optional[dict]: None and {} are falsy.
Truthy(o) == o.ok /\ DOMAIN o.m # {}

\* A set as a sequence, in a fixed order (dict iteration order).
RECURSIVE SeqOf(_)
SeqOf(S) ==
    IF S = {} THEN <<>>
    ELSE LET x == CHOOSE y \in S : TRUE IN <<x>> \o SeqOf(S \ {x})

\* ---------------------------------------------------------- marker entities

\* (mutant) only the keys the engine reads are kept.
M_MarkerLocation_KnownKeys(attrs) ==
    [k \in ((DOMAIN attrs) \cap {"id", "mode"}) \cup {"type"} |->
        IF k = "type" THEN "latlon" ELSE attrs[k]]

\* MarkerLocation.__init__: keeps the attrs it is given and forces
\* attrs["type"] = "latlon" (added when the key is missing).
MarkerLocation(attrs) == Update(attrs, [type |-> "latlon"])

\* MarkerLocation.getId / getMode / toJSON.
getId(r)   == r["id"]
getMode(r) == r["mode"]
toJSON(r)  == r

\* The entity an adapter or provider builds for id i: the attributes the
\* thread reads are "id" and "mode"; "type" is always "latlon".
Entity(i, mode) == MarkerLocation([id |-> i, mode |-> mode])

\* A mapping id -> MarkerLocation for the ids of S, all of one mode.
MarkersOf(S, mode) == [i \in S |-> Entity(i, mode)]

\* ------------------------------------------------------------------ files

\* A file on disk: st is "absent", "corrupt" (exists, but open() or
\* json.load() fails) or "ok" (a JSON object id -> attribute object, db);
\* mtime is os.path.getmtime().
AbsentFile      == [st |-> "absent",  db |-> EmptyMap, mtime |-> 0]
CorruptFile(tm) == [st |-> "corrupt", db |-> EmptyMap, mtime |-> tm]
JsonFile(db, tm) == [st |-> "ok", db |-> db, mtime |-> tm]

\* os.path.isfile(file)
isfile(f) == f.st # "absent"

\* Markers.loadMarkers: None on any open / decode error, otherwise one
\* MarkerLocation per key of the JSON object.
loadMarkers(f) ==
    IF f.st = "ok"
    THEN Some([k \in DOMAIN f.db |-> MarkerLocation(f.db[k])])
    ELSE None

\* Markers.saveMarkers: writes toJSON() of every marker; an exception is
\* logged and swallowed. outcome is what open(file, "w") + json.dump do:
\* "ok", "denied" (open() refuses, file untouched) or "partial" (the write
\* fails after open() truncated the file).
saveMarkers(f, markers, outcome, tm) ==
    CASE outcome = "ok"      -> JsonFile([k \in DOMAIN markers |-> toJSON(markers[k])], tm)
      [] outcome = "partial" -> CorruptFile(tm)
      [] OTHER               -> f

\* (mutant) the three results merged in the opposite order.
M_updateCache_Reversed(kiwi, web, owrx) ==
    Update(Update(Update(EmptyMap, owrx), web), kiwi)

\* Markers.updateCache, the merge: KiwiSDR, then WebSDR, then OpenWebRX,
\* each cache.update() overwriting the ids already present.
updateCache(kiwi, web, owrx) == Update(Update(Update(EmptyMap, kiwi), web), owrx)

\* (mutant) the cache is saved even when it is empty.
M_updateCacheFile_Always(f, cache, outcome, tm) == saveMarkers(f, cache, outcome, tm)

\* Markers.updateCache, the file: saved only "if cache:".
updateCacheFile(f, cache, outcome, tm) ==
    IF DOMAIN cache # {} THEN saveMarkers(f, cache, outcome, tm) ELSE f

\* ---------------------------------------------------------------- strings

\* A Python str is a sequence of one-character strings. The characters the
\* patterns tell apart are ":" "/" "(" ")" "," "." "-" "+" "_" " " and the
\* digits; no string of the model holds a line break.
Digits == {"0", "1", "2", "3", "4", "5", "6", "7", "8", "9"}

DigitVal(c) ==
    CASE c = "0" -> 0 [] c = "1" -> 1 [] c = "2" -> 2 [] c = "3" -> 3
      [] c = "4" -> 4 [] c = "5" -> 5 [] c = "6" -> 6 [] c = "7" -> 7
      [] c = "8" -> 8 [] c = "9" -> 9

\* s[i..j], empty when j < i.
Slice(s, i, j) == [k \in 1..(j - i + 1) |-> s[i + k - 1]]

\* Whether s holds the characters of w at position i.
At(s, i, w) ==
    /\ i >= 1
    /\ i + Len(w) - 1 <= Len(s)
    /\ \A k \in 1..Len(w) : s[i + k - 1] = w[k]

\* The first position >= i of s that holds a character outside cs
\* (Len(s) + 1 when there is none).
RECURSIVE SkipWhile(_, _, _)
SkipWhile(s, i, cs) ==
    IF i <= Len(s) /\ s[i] \in cs THEN SkipWhile(s, i + 1, cs) ELSE i

\* The number written by the digits s[i..j-1].
RECURSIVE NumberOf(_, _, _, _)
NumberOf(s, i, j, acc) ==
    IF i >= j THEN acc ELSE NumberOf(s, i + 1, j, 10 * acc + DigitVal(s[i]))

\* 10^n
RECURSIVE Pow10(_)
Pow10(n) == IF n = 0 THEN 1 ELSE 10 * Pow10(n - 1)

\* (mutant) the scheme is stripped, the path is kept.
M_hostname_KeepPath(url) ==
    LET seps == {i \in 1..Len(url) : At(url, i, <<":", "/", "/">>)} IN
    IF seps = {} THEN url
    ELSE LET i == CHOOSE k \in seps : \A l \in seps : l <= k
         IN  Slice(url, i + 3, Len(url))

\* re.sub(r"^.*://(.*?)(/.*)?$", r"\1", url), lines 371, 402, 444: the
\* greedy ^.* runs to the last "://", the lazy group stops at the first
\* "/" after it (or at the end); a url without "://" does not match and
\* is returned as it is.
hostname(url) ==
    LET seps == {i \in 1..Len(url) : At(url, i, <<":", "/", "/">>)} IN
    IF seps = {} THEN url
    ELSE LET i     == CHOOSE k \in seps : \A l \in seps : l <= k
             start == i + 3
             stop  == SkipWhile(url, start, {c \in {url[k] : k \in 1..Len(url)} : c # "/"})
         IN  Slice(url, start, stop - 1)

\* The number written by s[i..j-1], digits and "_" separators.
RECURSIVE NumberOfInt(_, _, _, _)
NumberOfInt(s, i, j, acc) ==
    IF i >= j THEN acc
    ELSE IF s[i] = "_" THEN NumberOfInt(s, i + 1, j, acc)
    ELSE NumberOfInt(s, i + 1, j, 10 * acc + DigitVal(s[i]))

\* int(x) for a str x, lines 407, 449-452: optional blanks, an optional
\* sign, digits (single "_" allowed between two digits), optional blanks;
\* anything else is ValueError.
int(x) ==
    LET a    == SkipWhile(x, 1, {" "})
        sgn  == a <= Len(x) /\ x[a] \in {"+", "-"}
        b    == IF sgn THEN a + 1 ELSE a
        c    == SkipWhile(x, b, Digits \cup {"_"})
        d    == SkipWhile(x, c, {" "})
        good == /\ c > b /\ d = Len(x) + 1
                /\ x[b] \in Digits /\ x[c - 1] \in Digits
                /\ \A k \in b..(c - 2) : ~(x[k] = "_" /\ x[k + 1] = "_")
        n    == NumberOfInt(x, b, c, 0)
    IN  IF good THEN [ok |-> TRUE, v |-> IF sgn /\ x[a] = "-" THEN 0 - n ELSE n]
        ELSE [ok |-> FALSE, v |-> 0]

\* float(text) of a matched -?\d+\.\d+, as <<num, scale>> for num / 10^scale
\* with no trailing zero in the fraction.
RECURSIVE float(_, _)
float(num, scale) ==
    IF scale > 0 /\ num % 10 = 0 THEN float(num \div 10, scale - 1)
    ELSE <<num, scale>>

\* One -?\d+\.\d+ of patternGps at position i of s: where it ends, and the
\* number it writes as num / 10^scale.
Decimal(s, i) ==
    LET neg == i <= Len(s) /\ s[i] = "-"
        a   == IF neg THEN i + 1 ELSE i
        b   == SkipWhile(s, a, Digits)
        dot == b <= Len(s) /\ s[b] = "."
        c   == SkipWhile(s, b + 1, Digits)
        n   == NumberOf(s, a, b, 0) * Pow10(c - b - 1) + NumberOf(s, b + 1, c, 0)
    IN  IF b > a /\ dot /\ c > b + 1
        THEN [ok |-> TRUE, end |-> c, num |-> IF neg THEN 0 - n ELSE n,
              scale |-> c - b - 1]
        ELSE [ok |-> FALSE, end |-> i, num |-> 0, scale |-> 0]

\* patternGps.match(x), line 423 and 436-440:
\* \(\s*(-?\d+\.\d+)\s*,\s*(-?\d+\.\d+)\s*\) at the start of x.
patternGps(x) ==
    LET nomatch == [ok |-> FALSE, lat |-> <<0, 0>>, lon |-> <<0, 0>>]
        a   == SkipWhile(x, 2, {" "})
        lat == Decimal(x, a)
        b   == SkipWhile(x, lat.end, {" "})
        c   == SkipWhile(x, b + 1, {" "})
        lon == Decimal(x, c)
        d   == SkipWhile(x, lon.end, {" "})
    IN  IF ~At(x, 1, <<"(">>) \/ ~lat.ok THEN nomatch
        ELSE IF ~At(x, b, <<",">>) \/ ~lon.ok THEN nomatch
        ELSE IF ~At(x, d, <<")">>) THEN nomatch
        ELSE [ok |-> TRUE, lat |-> float(lat.num, lat.scale),
              lon |-> float(lon.num, lon.scale)]

\* re.sub("_v", " ", x), line 454.
RECURSIVE SubUnderscoreV(_, _)
SubUnderscoreV(x, i) ==
    IF i > Len(x) THEN <<>>
    ELSE IF At(x, i, <<"_", "v">>) THEN <<" ">> \o SubUnderscoreV(x, i + 2)
    ELSE <<x[i]>> \o SubUnderscoreV(x, i + 1)

\* --------------------------------------------------------------- scrapers

\* A JSON scalar of a decoded response: a string or a number.
JStr(x) == [t |-> "str", s |-> x]
JNum(n) == [t |-> "num", n |-> n]

\* int(v) for a decoded JSON scalar (line 407).
intJson(v) == IF v.t = "num" THEN [ok |-> TRUE, v |-> v.n] ELSE int(v.s)

\* scrapeWebSDR, lines 394-410, one entry of data. st is the loop state:
\* result so far, and failed once an exception has left the loop (a
\* missing "desc" or "users" is KeyError, a non-integer "users" ValueError;
\* the try block encloses the whole loop).
WebEntry(st, entry) ==
    IF st.failed THEN st
    ELSE IF ~({"lat", "lon", "url"} \subseteq DOMAIN entry) THEN st
    ELSE IF ~({"desc", "users"} \subseteq DOMAIN entry) THEN [st EXCEPT !.failed = TRUE]
    ELSE IF ~intJson(entry["users"]).ok THEN [st EXCEPT !.failed = TRUE]
    ELSE LET rl == MarkerLocation(
                     [type    |-> "latlon",
                      mode    |-> "WebSDR",
                      id      |-> hostname(entry["url"]),
                      lat     |-> entry["lat"],
                      lon     |-> entry["lon"],
                      comment |-> entry["desc"],
                      url     |-> entry["url"],
                      users   |-> intJson(entry["users"]).v,
                      device  |-> "WebSDR"])
         IN  [st EXCEPT !.result = Update(@, [k \in {getId(rl)} |-> rl])]

RECURSIVE WebLoop(_, _, _)
WebLoop(data, i, st) ==
    IF i > Len(data) THEN st ELSE WebLoop(data, i + 1, WebEntry(st, data[i]))

\* Markers.scrapeWebSDR, lines 388-416. resp.ok is whether urlopen() and
\* json.loads() succeeded, resp.data the decoded array.
scrapeWebSDR(resp) ==
    IF ~resp.ok THEN EmptyMap
    ELSE WebLoop(resp.data, 1, [result |-> EmptyMap, failed |-> FALSE]).result

\* m.group(1).lower(), line 464, for the attribute names of the page.
lower(k) ==
    CASE k = "GPS"  -> "gps"
      [] k = "NAME" -> "name"
      [] OTHER      -> k

\* The attributes line 447-454 read from the pending entry.
KiwiFields == {"name", "users", "users_max", "loc", "asl", "antenna", "sw_version"}

\* scrapeKiwiSDR, lines 426-464, one line of the response. A line is an
\* anchor (patternUrl matches, url is its group 1), an attribute comment
\* (patternAttr matches: key and value) or other text. st is the loop
\* state: the pending entry, the result so far, and failed once an
\* exception has left the loop.
KiwiLine(st, line) ==
    IF st.failed THEN st
    ELSE IF line.kind = "url" THEN
        LET entry == Update(st.entry, [k \in {"url"} |-> line.url])
            gps   == IF "gps" \in DOMAIN entry THEN patternGps(entry["gps"])
                     ELSE [ok |-> FALSE, lat |-> <<0, 0>>, lon |-> <<0, 0>>]
        IN  IF ~gps.ok THEN [st EXCEPT !.entry = EmptyMap]
            ELSE IF ~(KiwiFields \subseteq DOMAIN entry)
                 THEN [st EXCEPT !.entry = entry, !.failed = TRUE]
            ELSE IF \E k \in {"users", "users_max", "asl"} : ~int(entry[k]).ok
                 THEN [st EXCEPT !.entry = entry, !.failed = TRUE]
            ELSE LET rl == MarkerLocation(
                             [type     |-> "latlon",
                              mode     |-> "KiwiSDR",
                              id       |-> hostname(entry["url"]),
                              lat      |-> gps.lat,
                              lon      |-> gps.lon,
                              comment  |-> entry["name"],
                              url      |-> entry["url"],
                              users    |-> int(entry["users"]).v,
                              maxusers |-> int(entry["users_max"]).v,
                              loc      |-> entry["loc"],
                              altitude |-> int(entry["asl"]).v,
                              antenna  |-> entry["antenna"],
                              device   |-> SubUnderscoreV(entry["sw_version"], 1)])
                 IN  [st EXCEPT !.entry = EmptyMap,
                                !.result = Update(@, [k \in {getId(rl)} |-> rl])]
    ELSE IF line.kind = "attr" THEN
        [st EXCEPT !.entry = Update(@, [k \in {lower(line.key)} |-> line.value])]
    ELSE st

\* ------------------------------------------------------------ environment

\* Station names the EIBI schedule may list, receiver hostnames the
\* directories may list, repeater names, and the ids of the static markers
\* (one id, "a", is used by three categories).
TxIds     == {"a", "b", "c"}
RxIds     == {"a", "r"}
RepIds    == {"p"}
StaticIds == {"a"}

\* What loadCurrentTransmitters can return: no station, or two of the
\* three, so that between two schedules one station goes, one comes and
\* one stays.
TxResults ==
    {MarkersOf(S, "Stations") : S \in {{}, {"a", "b"}, {"b", "c"}}}

\* What loadRepeaters returns.
RepResults == {MarkersOf(RepIds, "Repeaters")}

\* What the three scrapers can return ({} when the source fails).
KiwiResults == {MarkersOf(S, "KiwiSDR") : S \in SUBSET RxIds}
WebResults  == {MarkersOf(S, "WebSDR") : S \in SUBSET RxIds}
OwrxResults == {MarkersOf(S, "openwebrx") : S \in SUBSET RxIds}

\* self.fileList: the two known database files.
fileList == <<"markers.json", "/etc/openwebrx/markers.json">>

\* What a static marker file can be when the thread reads it.
StaticFileStates ==
    {AbsentFile, CorruptFile(0), JsonFile(MarkersOf(StaticIds, "Static"), 0)}

\* The outcomes of open(file, "w") + json.dump: written, refused by open()
\* (file untouched), or failed after open() truncated the file.
WriteOutcomes == {"ok", "denied", "partial"}

\* The environment of the refresh engine: what the providers, the sources
\* and the disk may answer. The KiwiSDR directory ranges over all its
\* results, the WebSDR directory lists "r" or fails, the OpenWebRX
\* directory fails, a write succeeds or is refused (the merge of all three
\* results and the truncated write are exercised by SpecFn).
FullEnv ==
    [tx      |-> TxResults,
     rep     |-> RepResults,
     kiwi    |-> KiwiResults,
     web     |-> {MarkersOf(S, "WebSDR") : S \in SUBSET {"r"}},
     owrx    |-> {EmptyMap},
     statics |-> StaticFileStates,
     writes  |-> {"ok", "denied"}]

\* The environment of the start()/stop() interleavings: one schedule, no
\* source answers, the static files absent or unreadable.
QuietEnv ==
    [tx      |-> {MarkersOf({"a"}, "Stations")},
     rep     |-> {EmptyMap},
     kiwi    |-> {EmptyMap},
     web     |-> {EmptyMap},
     owrx    |-> {EmptyMap},
     statics |-> {AbsentFile, CorruptFile(0)},
     writes  |-> {"ok"}]

\* ------------------------------------------------------------------ state

VARIABLES
    thread,     \* self.thread: 0 is None, otherwise the Thread object
    event,      \* self.event (threading.Event)
    call,       \* per caller: position in start()/stop(), join target,
                \*   and the tasks that were alive when stop() was called
    taskPc,     \* per Thread object: position in _refreshThread
    ts,         \* per task: the local ts
    tx,         \* per task: the local tx (None when not held)
    markers,    \* self.markers
    rxmarkers,  \* self.rxmarkers (an Optional: loadMarkers may return None)
    txmarkers,  \* self.txmarkers
    remarkers,  \* self.remarkers
    now,        \* time.time()
    cacheFile,  \* <data_directory>/markers.json
    lastOps,    \* the Map operations issued by the latest task step
    arg,        \* argument of the function under test (function specs)
    ret         \* its result

threadVars == <<thread, event, call, taskPc, ts, tx, markers, rxmarkers,
                txmarkers, remarkers, now, cacheFile, lastOps>>
fnVars == <<arg, ret>>
vars == <<thread, event, call, taskPc, ts, tx, markers, rxmarkers,
          txmarkers, remarkers, now, cacheFile, lastOps, arg, ret>>

Idle == [pc |-> "idle", h |-> 0, alive |-> {}]
\* lastOps before any task has run.
NoTrace ==
    [task |-> 0, phase |-> "none", ops |-> <<>>, old |-> {}, new |-> {},
     cycle |-> [t \in Tasks |-> <<>>]]
\* lastOps: the task, the phase it ran, the Map operations it issued in
\* order, for a diff or a rebuild the ids of the mapping before and of the
\* new result, and per task the phases it has run in its current cycle (the
\* startup sequence, or the hourly iteration since the wait timed out).
Ops(t, phase, ops, old, new) ==
    [task |-> t, phase |-> phase, ops |-> ops, old |-> old, new |-> new,
     cycle |-> [lastOps.cycle EXCEPT ![t] =
                  IF phase \in {"static", "wait"} THEN <<phase>>
                  ELSE IF phase = "exit" THEN <<>>
                  ELSE Append(@, phase)]]
NoOps(t, phase) == Ops(t, phase, <<>>, {}, {})
NoArg == [fn |-> "none"]
NoRet == [done |-> FALSE]

\* The task's code is running: started, and neither returned nor raised.
Alive(t) == taskPc[t] \notin {"none", "new", "done", "crashed"}
\* Thread.join() returns: the thread was started and has ended.
Ended(t) == taskPc[t] \in {"done", "crashed"}

\* The cache file found when the process starts.
InitialCacheFiles ==
    {AbsentFile}
    \cup {CorruptFile(tm) : tm \in {Epoch, Epoch - refreshPeriod}}
    \cup {JsonFile(MarkersOf({"r"}, "KiwiSDR"), tm) : tm \in {Epoch, Epoch - refreshPeriod}}

\* Markers.__init__ (lines 70-76), before any start().
Init ==
    /\ thread = 0
    /\ event = FALSE
    /\ call = [c \in Callers |-> Idle]
    /\ taskPc = [t \in Tasks |-> "none"]
    /\ ts = [t \in Tasks |-> 0]
    /\ tx = [t \in Tasks |-> None]
    /\ markers = EmptyMap
    /\ rxmarkers = Some(EmptyMap)
    /\ txmarkers = EmptyMap
    /\ remarkers = EmptyMap
    /\ now = Epoch
    /\ cacheFile \in InitialCacheFiles
    /\ lastOps = NoTrace
    /\ arg = NoArg
    /\ ret = NoRet

\* ------------------------------------------------------- start() / stop()

SetCall(c, pc, h, alive) ==
    call' = [call EXCEPT ![c] = [pc |-> pc, h |-> h, alive |-> alive]]

\* Thread objects not yet created, and callers committed to creating one.
Unused   == {t \in Tasks : taskPc[t] = "none"}
Creating == {c \in Callers : call[c].pc \in {"s_clear", "s_new"}}

\* startThread, line 93: if self.thread is None
StartCheck(c) ==
    /\ call[c].pc = "idle"
    /\ Cardinality(Unused) > Cardinality(Creating)
    /\ IF thread = 0 THEN SetCall(c, "s_clear", 0, {}) ELSE UNCHANGED call
    /\ UNCHANGED <<thread, event, taskPc, ts, tx, markers, rxmarkers, txmarkers,
                   remarkers, now, cacheFile, lastOps, arg, ret>>

\* startThread, line 94: self.event.clear()
StartClear(c) ==
    /\ call[c].pc = "s_clear"
    /\ event' = FALSE
    /\ SetCall(c, "s_new", 0, {})
    /\ UNCHANGED <<thread, taskPc, ts, tx, markers, rxmarkers, txmarkers,
                   remarkers, now, cacheFile, lastOps, arg, ret>>

\* startThread, line 95: self.thread = threading.Thread(...)
StartNew(c) ==
    /\ call[c].pc = "s_new"
    /\ Unused # {}
    /\ LET t == CHOOSE u \in Unused : \A v \in Unused : u <= v IN
        /\ taskPc' = [taskPc EXCEPT ![t] = "new"]
        /\ thread' = t
    /\ SetCall(c, "s_run", 0, {})
    /\ UNCHANGED <<event, ts, tx, markers, rxmarkers, txmarkers,
                   remarkers, now, cacheFile, lastOps, arg, ret>>

\* startThread, line 96: self.thread.start(). self.thread is read again:
\* None has no start() (AttributeError), and a Thread that was already
\* started raises RuntimeError.
StartRun(c) ==
    /\ call[c].pc = "s_run"
    /\ IF thread # 0 /\ taskPc[thread] = "new"
       THEN /\ taskPc' = [taskPc EXCEPT ![thread] = "static"]
            /\ SetCall(c, "idle", 0, {})
       ELSE /\ SetCall(c, "s_raised", 0, {})
            /\ UNCHANGED taskPc
    /\ UNCHANGED <<thread, event, ts, tx, markers, rxmarkers, txmarkers,
                   remarkers, now, cacheFile, lastOps, arg, ret>>

\* stopThread, line 100: if self.thread is not None
StopCheck(c) ==
    /\ call[c].pc = "idle"
    /\ SetCall(c, IF thread # 0 THEN "p_set" ELSE "p_ret", 0,
               {t \in Tasks : Alive(t)})
    /\ UNCHANGED <<thread, event, taskPc, ts, tx, markers, rxmarkers, txmarkers,
                   remarkers, now, cacheFile, lastOps, arg, ret>>

\* stopThread, line 102: self.event.set()
StopSet(c) ==
    /\ call[c].pc = "p_set"
    /\ event' = TRUE
    /\ SetCall(c, "p_join", 0, call[c].alive)
    /\ UNCHANGED <<thread, taskPc, ts, tx, markers, rxmarkers, txmarkers,
                   remarkers, now, cacheFile, lastOps, arg, ret>>

\* stopThread, line 103: self.thread.join(), the call. self.thread is read
\* again: None has no join() (AttributeError), and joining a Thread that
\* was not started raises RuntimeError.
StopJoin(c) ==
    /\ call[c].pc = "p_join"
    /\ IF thread # 0 /\ taskPc[thread] # "new"
       THEN SetCall(c, "p_wait", thread, call[c].alive)
       ELSE SetCall(c, "p_raised", 0, call[c].alive)
    /\ UNCHANGED <<thread, event, taskPc, ts, tx, markers, rxmarkers, txmarkers,
                   remarkers, now, cacheFile, lastOps, arg, ret>>

\* stopThread, line 103: join() returns once the joined thread has ended.
StopWait(c) ==
    /\ call[c].pc = "p_wait"
    /\ Ended(call[c].h)
    /\ SetCall(c, "p_ret", 0, call[c].alive)
    /\ UNCHANGED <<thread, event, taskPc, ts, tx, markers, rxmarkers, txmarkers,
                   remarkers, now, cacheFile, lastOps, arg, ret>>

\* stop() has returned to its caller, who goes on.
StopReturn(c) ==
    /\ call[c].pc = "p_ret"
    /\ SetCall(c, "idle", 0, {})
    /\ UNCHANGED <<thread, event, taskPc, ts, tx, markers, rxmarkers, txmarkers,
                   remarkers, now, cacheFile, lastOps, arg, ret>>

\* ------------------------------------------------------ Map operations

\* map.updateLocation(r.getId(), r, r.getMode(), ...) for every marker of m.
Updates(m) ==
    LET keys == SeqOf(DOMAIN m)
    IN  [i \in 1..Len(keys) |-> <<"update", getId(m[keys[i]])>>]

\* map.removeLocation(key) for every key of ks.
Removes(ks) ==
    LET keys == SeqOf(ks)
    IN  [i \in 1..Len(keys) |-> <<"remove", keys[i]>>]

\* Markers.updateMap: nothing when markers is None.
updateMap(o) == IF o.ok THEN Updates(o.m) ELSE <<>>

\* Lines 166-169 / 195-198: the keys of the old mapping missing from new.
Vanished(old, new) == (DOMAIN old) \ (DOMAIN new)

\* (mutant) only the ids that were not there before are updated.
M_DiffOps_OnlyNew(old, new) ==
    Removes(Vanished(old, new))
    \o Updates([k \in (DOMAIN new) \ (DOMAIN old) |-> new[k]])

\* Lines 164-178 / 194-203: the Map operations of one diff, removals first.
DiffOps(old, new) == Removes(Vanished(old, new)) \o Updates(new)

\* Lines 164-178 / 194-203: the in-memory mapping after one diff.
DiffResult(old, new) == Update(Without(old, Vanished(old, new)), new)

\* --------------------------------------------------------- _refreshThread

\* (mutant) the cache counts as stale after one hour.
M_isStale_Hourly(tm, t0) == tm - t0 >= Hour

\* Lines 125, 189: time.time() - ts >= self.refreshPeriod
isStale(tm, t0) == tm - t0 >= refreshPeriod

SetPc(t, pc) == taskPc' = [taskPc EXCEPT ![t] = pc]

\* Lines 115-118: self.markers.update(self.loadMarkers(file)) for the files
\* fs[i..] that exist; dict.update(None) raises TypeError.
RECURSIVE LoadStatic(_, _, _)
LoadStatic(fs, i, acc) ==
    IF i > Len(fs) THEN [ok |-> TRUE, m |-> acc]
    ELSE IF ~isfile(fs[i]) THEN LoadStatic(fs, i + 1, acc)
    ELSE LET r == loadMarkers(fs[i]) IN
         IF r.ok THEN LoadStatic(fs, i + 1, Update(acc, r.m))
         ELSE [ok |-> FALSE, m |-> acc]

\* Lines 107-118: reset the four mappings, load the static marker files.
StartupStatic(t, E) ==
    /\ taskPc[t] = "static"
    /\ \E fs \in [1..Len(fileList) -> E.statics] :
        LET r == LoadStatic(fs, 1, EmptyMap) IN
        /\ markers' = r.m
        /\ SetPc(t, IF r.ok THEN "cache" ELSE "crashed")
    /\ rxmarkers' = Some(EmptyMap)
    /\ txmarkers' = EmptyMap
    /\ remarkers' = EmptyMap
    /\ lastOps' = NoOps(t, "static")
    /\ UNCHANGED <<thread, event, call, ts, tx, now, cacheFile, arg, ret>>

\* Lines 120-131: rebuild the cache if it is stale, fall back to the file.
StartupCache(t, E) ==
    /\ taskPc[t] = "cache"
    /\ \E kiwi \in E.kiwi, web \in E.web, owrx \in E.owrx,
          outcome \in E.writes :
        LET ts0   == IF isfile(cacheFile) THEN cacheFile.mtime ELSE 0
            stale == isStale(now, ts0)
            cache == updateCache(kiwi, web, owrx)
            f1    == IF stale THEN updateCacheFile(cacheFile, cache, outcome, now)
                     ELSE cacheFile
            ts1   == IF ~stale THEN ts0
                     ELSE IF isfile(f1) THEN f1.mtime ELSE 0
            rx1   == IF stale THEN Some(cache) ELSE rxmarkers
        IN
        /\ cacheFile' = f1
        /\ ts' = [ts EXCEPT ![t] = ts1]
        /\ rxmarkers' = IF Truthy(rx1) THEN rx1 ELSE loadMarkers(f1)
        /\ lastOps' = NoOps(t, IF stale THEN "cache-rebuild" ELSE "cache")
    /\ SetPc(t, "sched")
    /\ UNCHANGED <<thread, event, call, tx, markers, txmarkers, remarkers,
                   now, arg, ret>>

\* Line 134: self.txmarkers = self.loadCurrentTransmitters()
StartupSched(t, E) ==
    /\ taskPc[t] = "sched"
    /\ \E r \in E.tx : txmarkers' = r
    /\ SetPc(t, "repeat")
    /\ lastOps' = NoOps(t, "sched")
    /\ UNCHANGED <<thread, event, call, ts, tx, markers, rxmarkers, remarkers,
                   now, cacheFile, arg, ret>>

\* Line 137: self.remarkers = self.loadRepeaters()
StartupRepeaters(t, E) ==
    /\ taskPc[t] = "repeat"
    /\ \E r \in E.rep : remarkers' = r
    /\ SetPc(t, "publish")
    /\ lastOps' = NoOps(t, "repeat")
    /\ UNCHANGED <<thread, event, call, ts, tx, markers, rxmarkers, txmarkers,
                   now, cacheFile, arg, ret>>

\* Lines 139-144: the four updateMap calls.
Publish(t) ==
    /\ taskPc[t] = "publish"
    /\ lastOps' = Ops(t, "publish",
                       Updates(markers) \o updateMap(rxmarkers)
                       \o Updates(txmarkers) \o Updates(remarkers), {}, {})
    /\ SetPc(t, "loop")
    /\ UNCHANGED <<thread, event, call, ts, tx, markers, rxmarkers, txmarkers,
                   remarkers, now, cacheFile, arg, ret>>

\* Lines 150-154, 161, 185: the stop signal is seen, break.
Break(t) ==
    /\ taskPc[t] \in {"loop", "difftx", "rxphase"}
    /\ event
    /\ SetPc(t, "exit")
    /\ tx' = [tx EXCEPT ![t] = None]
    /\ lastOps' = NoOps(t, "break")
    /\ UNCHANGED <<thread, event, call, ts, markers, rxmarkers, txmarkers,
                   remarkers, now, cacheFile, arg, ret>>

\* Lines 150-154: event.wait() times out at the head of the next hour.
WaitTimeout(t) ==
    /\ taskPc[t] = "loop"
    /\ ~event
    /\ HoursOf(now) < MaxHours
    /\ now' = now + Hour
    /\ SetPc(t, "loadtx")
    /\ lastOps' = NoOps(t, "wait")
    /\ UNCHANGED <<thread, event, call, ts, tx, markers, rxmarkers, txmarkers,
                   remarkers, cacheFile, arg, ret>>

\* Line 158: tx = self.loadCurrentTransmitters()
LoadTx(t, E) ==
    /\ taskPc[t] = "loadtx"
    /\ \E r \in E.tx : tx' = [tx EXCEPT ![t] = Some(r)]
    /\ SetPc(t, "difftx")
    /\ lastOps' = NoOps(t, "loadtx")
    /\ UNCHANGED <<thread, event, call, ts, markers, rxmarkers, txmarkers,
                   remarkers, now, cacheFile, arg, ret>>

\* Lines 161-182: remove the stations that are gone, update all of tx.
DiffTx(t) ==
    /\ taskPc[t] = "difftx"
    /\ ~event
    /\ lastOps' = Ops(t, "difftx", DiffOps(txmarkers, tx[t].m),
                       DOMAIN txmarkers, DOMAIN tx[t].m)
    /\ txmarkers' = DiffResult(txmarkers, tx[t].m)
    /\ tx' = [tx EXCEPT ![t] = None]
    /\ SetPc(t, "rxphase")
    /\ UNCHANGED <<thread, event, call, ts, markers, rxmarkers, remarkers,
                   now, cacheFile, arg, ret>>

\* Lines 185-206, cache not stale: nothing to do.
RxFresh(t) ==
    /\ taskPc[t] = "rxphase"
    /\ ~event
    /\ ~isStale(now, ts[t])
    /\ SetPc(t, "loop")
    /\ lastOps' = NoOps(t, "rxfresh")
    /\ UNCHANGED <<thread, event, call, ts, tx, markers, rxmarkers, txmarkers,
                   remarkers, now, cacheFile, arg, ret>>

\* Lines 185-206, cache stale: rebuild, ts = os.path.getmtime(file) (raises
\* when there is no file), and if rx is non-empty diff it against
\* self.rxmarkers (None has no keys(): AttributeError).
RxRebuild(t, E) ==
    /\ taskPc[t] = "rxphase"
    /\ ~event
    /\ isStale(now, ts[t])
    /\ \E kiwi \in E.kiwi, web \in E.web, owrx \in E.owrx,
          outcome \in E.writes :
        LET rx == updateCache(kiwi, web, owrx)
            f1 == updateCacheFile(cacheFile, rx, outcome, now)
            nofile == ~isfile(f1)
            nodict == DOMAIN rx # {} /\ ~rxmarkers.ok
            diff   == DOMAIN rx # {} /\ rxmarkers.ok
        IN
        /\ cacheFile' = f1
        /\ ts' = [ts EXCEPT ![t] = IF nofile \/ nodict THEN 0 ELSE f1.mtime]
        /\ SetPc(t, IF nofile \/ nodict THEN "crashed" ELSE "loop")
        /\ rxmarkers' = IF diff /\ ~nofile
                        THEN Some(DiffResult(rxmarkers.m, rx)) ELSE rxmarkers
        /\ lastOps' = Ops(t, "rxrebuild",
                           IF diff /\ ~nofile THEN DiffOps(rxmarkers.m, rx)
                           ELSE <<>>,
                           DOMAIN rxmarkers.m, DOMAIN rx)
    /\ UNCHANGED <<thread, event, call, tx, markers, txmarkers, remarkers,
                   now, arg, ret>>

\* Lines 208-210: self.thread = None, and the thread function returns.
Exit(t) ==
    /\ taskPc[t] = "exit"
    /\ thread' = 0
    /\ SetPc(t, "done")
    /\ ts' = [ts EXCEPT ![t] = 0]
    /\ lastOps' = NoOps(t, "exit")
    /\ UNCHANGED <<event, call, tx, markers, rxmarkers, txmarkers,
                   remarkers, now, cacheFile, arg, ret>>

\* A refresh period goes by (a slow source, a suspended host).
Tick ==
    /\ DaysOf(now) < MaxDays
    /\ now' = now + refreshPeriod
    /\ UNCHANGED <<thread, event, call, taskPc, ts, tx, markers, rxmarkers,
                   txmarkers, remarkers, cacheFile, lastOps, arg, ret>>

\* One step of a caller of start() / stop().
CallerStep(c) ==
    \/ StartCheck(c) \/ StartClear(c) \/ StartNew(c) \/ StartRun(c)
    \/ StopCheck(c) \/ StopSet(c) \/ StopJoin(c) \/ StopWait(c)
    \/ StopReturn(c)

\* One step of a refresh thread in environment E.
TaskStep(t, E) ==
    \/ StartupStatic(t, E) \/ StartupCache(t, E) \/ StartupSched(t, E)
    \/ StartupRepeaters(t, E) \/ Publish(t) \/ Break(t) \/ WaitTimeout(t)
    \/ LoadTx(t, E) \/ DiffTx(t) \/ RxFresh(t) \/ RxRebuild(t, E) \/ Exit(t)

\* The caller that owns the lifecycle when start() and stop() are called
\* in sequence.
MainCaller == CHOOSE c \in Callers : \A d \in Callers : c <= d

\* The refresh engine: start() and stop() called in sequence by one caller,
\* any answer from the providers, the sources and the disk.
Next ==
    \/ CallerStep(MainCaller)
    \/ \E t \in Tasks : TaskStep(t, FullEnv)
    \/ Tick

Spec == Init /\ [][Next]_vars

\* The lifecycle: start() and stop() called concurrently by all callers.
NextConc ==
    \/ \E c \in Callers : CallerStep(c)
    \/ \E t \in Tasks : TaskStep(t, QuietEnv)
    \/ Tick

SpecConc == Init /\ [][NextConc]_vars

\* ------------------------------------------------ the functions, one by one

\* Number of records in a scraped response.
MaxRecords == 2

\* "http://example.org/path"
UrlExampleOrg == <<"h", "t", "t", "p", ":", "/", "/", "e", "x", "a", "m", "p", "l", "e", ".", "o", "r", "g", "/", "p", "a", "t", "h">>
\* "http://kiwi.example.net:8073"
UrlKiwiNet == <<"h", "t", "t", "p", ":", "/", "/", "k", "i", "w", "i", ".", "e", "x", "a", "m", "p", "l", "e", ".", "n", "e", "t", ":", "8", "0", "7", "3">>
\* "https://radio.example.com:8073/status"
UrlRadioStatus == <<"h", "t", "t", "p", "s", ":", "/", "/", "r", "a", "d", "i", "o", ".", "e", "x", "a", "m", "p", "l", "e", ".", "c", "o", "m", ":", "8", "0", "7", "3", "/", "s", "t", "a", "t", "u", "s">>
\* "https://radio.example.com/"
UrlRadioRoot == <<"h", "t", "t", "p", "s", ":", "/", "/", "r", "a", "d", "i", "o", ".", "e", "x", "a", "m", "p", "l", "e", ".", "c", "o", "m", "/">>

\* URLs made of a scheme, a host, an optional port and an optional path.
UrlSamples ==
    {sch \o <<":", "/", "/">> \o host \o port \o path :
        sch  \in {<<"h", "t", "t", "p">>, <<"h", "t", "t", "p", "s">>},
        host \in {<<"e", "x", "a", "m", "p", "l", "e", ".", "o", "r", "g">>, <<"r", "a", "d", "i", "o", ".", "e", "x", "a", "m", "p", "l", "e", ".", "c", "o", "m">>},
        port \in {<<>>, <<":", "8", "0", "7", "3">>},
        path \in {<<>>, <<"/">>, <<"/", "p", "a", "t", "h">>, <<"/", "s", "t", "a", "t", "u", "s">>}}

\* "(12.34, -56.78)" and a pair patternGps does not match
GpsGood == <<"(", "1", "2", ".", "3", "4", ",", " ", "-", "5", "6", ".", "7", "8", ")">>
GpsBad  == <<"(", "1", "2", ",", " ", "-", "5", "6", ".", "7", "8", ")">>

Attr(key, value) == [kind |-> "attr", key |-> key, value |-> value]
Anchor(url)      == [kind |-> "url", url |-> url]

\* The comment lines of one receiver of the KiwiSDR page besides gps.
KiwiRest(users) ==
    << Attr("NAME", <<"K", "i", "w", "i">>), Attr("users", users),
       Attr("users_max", <<"4">>), Attr("loc", <<"O", "s", "l", "o">>),
       Attr("asl", <<"1", "2", "0">>), Attr("antenna", <<"d", "i", "p", "o", "l", "e">>),
       Attr("sw_version", <<"K", "i", "w", "i", "S", "D", "R", "_", "v", "1", ".", "6">>) >>

\* One receiver of the page: its gps comment (present and well-formed,
\* malformed, or absent), its other comments (all, all with a non-integer
\* user count, or none: the two-line record) and its anchor line.
KiwiRecords ==
    {gps \o rest \o <<Anchor(url)>> :
        gps  \in {<<>>, <<Attr("GPS", GpsGood)>>, <<Attr("gps", GpsBad)>>},
        rest \in {<<>>, KiwiRest(<<"3">>), KiwiRest(<<"n", "/", "a">>)},
        url  \in {UrlExampleOrg, UrlKiwiNet}}

\* One entry of the WebSDR list: complete (users a number or a string),
\* without coordinates, without description, or with a non-integer count.
WebRecords ==
    LET full(url, users) ==
            [lat |-> <<1234, 2>>, lon |-> <<-5678, 2>>, url |-> url,
             desc |-> <<"W", "e", "b", "S", "D", "R">>, users |-> users]
    IN  {full(url, users) :
            url \in {UrlExampleOrg, UrlKiwiNet},
            users \in {JNum(3), JStr(<<"7">>), JStr(<<"n", "/", "a">>)}}
        \cup {[url |-> UrlExampleOrg, desc |-> <<"W", "e", "b", "S", "D", "R">>, users |-> JNum(3)],
              [lat |-> <<1234, 2>>, lon |-> <<-5678, 2>>, url |-> UrlKiwiNet,
               users |-> JNum(3)]}

\* The sequences of at most n elements of S.
SeqsUpTo(S, n) == UNION {[1..k -> S] : k \in 0..n}

\* s[1] \o s[2] \o ...
RECURSIVE Flatten(_)
Flatten(s) == IF s = <<>> THEN <<>> ELSE Head(s) \o Flatten(Tail(s))

\* A cache file as an older version may have left it: any "type", or none,
\* and keys the engine does not know.
CacheAttrs ==
    {[id |-> "x", mode |-> "KiwiSDR"],
     [id |-> "x", mode |-> "KiwiSDR", type |-> "latlon"],
     [id |-> "x", mode |-> "KiwiSDR", type |-> "feature"],
     [id |-> "x", mode |-> "KiwiSDR", type |-> "latlon", extra |-> "v"],
     [id |-> "x", mode |-> "WebSDR", type |-> "feature", extra |-> "v"]}
CacheDbs == UNION {[S -> CacheAttrs] : S \in SUBSET {"x", "y"}}

\* The calls made in isolation: the function and its arguments.
FnArgs ==
    {[fn |-> "hostname", urls |-> <<u, v>>] : u \in UrlSamples, v \in {UrlExampleOrg, UrlRadioRoot}}
    \cup {[fn |-> "hostname", urls |-> <<UrlRadioStatus, UrlRadioRoot>>]}
    \cup {[fn |-> "scrapeKiwiSDR", lines |-> Flatten(rs)] :
            rs \in SeqsUpTo(KiwiRecords, MaxRecords)}
    \cup {[fn |-> "scrapeWebSDR", resp |-> [ok |-> ok, data |-> d]] :
            ok \in BOOLEAN, d \in SeqsUpTo(WebRecords, MaxRecords)}
    \cup {[fn |-> "updateCache", kiwi |-> k, web |-> w, owrx |-> o,
           file |-> f, outcome |-> oc] :
            k \in KiwiResults, w \in WebResults, o \in OwrxResults,
            f \in InitialCacheFiles, oc \in WriteOutcomes}
    \cup {[fn |-> "loadMarkers", file |-> JsonFile(db, Epoch)] : db \in CacheDbs}

\* The scraper loop before its first line.
KiwiStart == [entry |-> EmptyMap, result |-> EmptyMap, failed |-> FALSE]

InitFn ==
    /\ thread = 0
    /\ event = FALSE
    /\ call = [c \in Callers |-> Idle]
    /\ taskPc = [t \in Tasks |-> "none"]
    /\ ts = [t \in Tasks |-> 0]
    /\ tx = [t \in Tasks |-> None]
    /\ markers = EmptyMap
    /\ rxmarkers = Some(EmptyMap)
    /\ txmarkers = EmptyMap
    /\ remarkers = EmptyMap
    /\ now = Epoch + Hour
    /\ cacheFile = AbsentFile
    /\ lastOps = NoTrace
    /\ arg \in FnArgs
    /\ ret = [done |-> FALSE, pos |-> 1, st |-> KiwiStart, before |-> KiwiStart]

\* re.sub(r"^.*://(.*?)(/.*)?$", r"\1", url) on two URLs.
CallHostname ==
    /\ arg.fn = "hostname" /\ ~ret.done
    /\ ret' = [done |-> TRUE, ids |-> <<hostname(arg.urls[1]), hostname(arg.urls[2])>>]
    /\ UNCHANGED <<threadVars, arg>>

\* scrapeKiwiSDR: the loop body on the next line of the response, until
\* the lines are used up or an exception leaves the loop. ret.pos is the
\* next line, ret.st the loop state, ret.before the loop state before the
\* line just processed.
ScrapeKiwiLine ==
    /\ arg.fn = "scrapeKiwiSDR" /\ ~ret.done
    /\ IF ret.pos > Len(arg.lines) \/ ret.st.failed
       THEN ret' = [ret EXCEPT !.done = TRUE]
       ELSE ret' = [ret EXCEPT !.pos = @ + 1,
                               !.before = ret.st,
                               !.st = KiwiLine(@, arg.lines[ret.pos])]
    /\ UNCHANGED <<threadVars, arg>>

\* scrapeWebSDR on one response.
CallScrapeWebSDR ==
    /\ arg.fn = "scrapeWebSDR" /\ ~ret.done
    /\ ret' = [done |-> TRUE, result |-> scrapeWebSDR(arg.resp)]
    /\ UNCHANGED <<threadVars, arg>>

\* updateCache with the three scrapers' results given.
CallUpdateCache ==
    /\ arg.fn = "updateCache" /\ ~ret.done
    /\ LET cache == updateCache(arg.kiwi, arg.web, arg.owrx) IN
       ret' = [done |-> TRUE, cache |-> cache,
               file |-> updateCacheFile(arg.file, cache, arg.outcome, now)]
    /\ UNCHANGED <<threadVars, arg>>

\* loadMarkers on a cache file ...
CallLoadMarkers ==
    /\ arg.fn = "loadMarkers" /\ ~ret.done /\ "markers" \notin DOMAIN ret
    /\ ret' = [done |-> FALSE, markers |-> loadMarkers(arg.file)]
    /\ UNCHANGED <<threadVars, arg>>

\* ... and saveMarkers of what was loaded.
CallSaveMarkers ==
    /\ arg.fn = "loadMarkers" /\ ~ret.done /\ "markers" \in DOMAIN ret
    /\ ret.markers.ok
    /\ ret' = [done |-> TRUE, markers |-> ret.markers,
               file |-> saveMarkers(AbsentFile, ret.markers.m, "ok", now)]
    /\ UNCHANGED <<threadVars, arg>>

NextFn ==
    \/ CallHostname
    \/ ScrapeKiwiLine
    \/ CallScrapeWebSDR
    \/ CallUpdateCache
    \/ CallLoadMarkers
    \/ CallSaveMarkers

SpecFn == InitFn /\ [][NextFn]_vars

\* ------------------------------------------------------------- properties

\* C1: when a stop() call returns, every refresh task that was running
\* when the call was made has ended (so it issues no further update or
\* remove), also when stop() directly follows start().
C1_StopJoinsTask ==
    \A c \in Callers :
        call[c].pc = "p_ret" => \A t \in call[c].alive : Ended(t)

\* C2: in every interleaving of start() and stop() calls by concurrent
\* callers, at most one refresh task is alive at any time.
C2_AtMostOneTask == Cardinality({t \in Tasks : Alive(t)}) <= 1

\* C3: no file, cache or source failure ends the refresh task: a started
\* task ends only by seeing the stop signal, never by an exception.
C3_TaskEndsOnlyOnStop == \A t \in Tasks : taskPc[t] # "crashed"

\* The calls of updateCache that have returned, and the scrapers that
\* returned entities in them.
CacheCallDone == arg.fn = "updateCache" /\ ret.done
NonEmptyOf(a) ==
    {n \in {"kiwi", "web", "owrx"} : DOMAIN a[n] # {}}

\* C4: a cache rebuild in which all three scrapers return nothing leaves
\* the cache file as it was: same content, same modification time.
C4_EmptyRebuildKeepsFile ==
    (CacheCallDone /\ NonEmptyOf(arg) = {}) => ret.file = arg.file

C4_Witness ==
    CacheCallDone /\ NonEmptyOf(arg) = {} /\ arg.file.st = "ok" /\ ret.file.st = "ok"

\* The union of the three results, the later scraper winning a collision.
IsOrderedUnion(cache, kiwi, web, owrx) ==
    /\ DOMAIN cache = (DOMAIN kiwi) \cup (DOMAIN web) \cup (DOMAIN owrx)
    /\ \A i \in DOMAIN cache :
        cache[i] = IF i \in DOMAIN owrx THEN owrx[i]
                   ELSE IF i \in DOMAIN web THEN web[i]
                   ELSE kiwi[i]

\* The cache file holds exactly the results of the one scraper that
\* returned entities.
OnlySourceWritten ==
    \A n \in NonEmptyOf(arg) :
        /\ ret.file.st = "ok"
        /\ DOMAIN ret.file.db # {}
        /\ ret.file.db = arg[n]

Count(ops, op) == Cardinality({i \in DOMAIN ops : ops[i] = op})

\* The latest step was a schedule diff between two schedules that differ
\* by one station that went and one that came.
OneGoesOneComes ==
    /\ lastOps.phase = "difftx"
    /\ Cardinality(lastOps.old \ lastOps.new) = 1
    /\ Cardinality(lastOps.new \ lastOps.old) = 1

\* C6 as claimed: such a diff issues exactly one remove, for the station
\* that went, and exactly one update, for the station that came; the
\* stations that stayed are not updated again.
C6_OnlyDeltasIssued ==
    OneGoesOneComes =>
        /\ Len(lastOps.ops) = 2
        /\ \A i \in lastOps.old \ lastOps.new : Count(lastOps.ops, <<"remove", i>>) = 1
        /\ \A i \in lastOps.new \ lastOps.old : Count(lastOps.ops, <<"update", i>>) = 1

\* C6 as amended: such a diff issues exactly one remove, for the station
\* that went, and exactly one update for every station of the new schedule,
\* the one that came and each one that stayed; nothing else.
C6_OneRemoveAllUpdated ==
    OneGoesOneComes =>
        /\ Len(lastOps.ops) = 1 + Cardinality(lastOps.new)
        /\ \A i \in lastOps.old \ lastOps.new : Count(lastOps.ops, <<"remove", i>>) = 1
        /\ \A i \in lastOps.new : Count(lastOps.ops, <<"update", i>>) = 1
        /\ DOMAIN txmarkers = lastOps.new

C6_Witness ==
    /\ OneGoesOneComes
    /\ lastOps.old \cap lastOps.new # {}
    /\ Len(lastOps.ops) = 3

\* A cache file has been loaded and what was loaded saved again.
RoundTripDone == arg.fn = "loadMarkers" /\ ret.done

\* After the round trip, attribute k of marker i is what the file held.
SameValue(i, k) ==
    /\ i \in DOMAIN ret.file.db
    /\ k \in DOMAIN ret.file.db[i]
    /\ ret.file.db[i][k] = arg.file.db[i][k]

\* C7 as claimed: loading a valid cache file and saving what was loaded
\* gives the same ids and, for every id, the same value of every attribute
\* the file held.
C7_RoundTripAllKeys ==
    RoundTripDone =>
        /\ DOMAIN ret.file.db = DOMAIN arg.file.db
        /\ \A i \in DOMAIN arg.file.db :
            \A k \in DOMAIN arg.file.db[i] : SameValue(i, k)

\* C7 as amended: the same ids and, for every id, the same value of every
\* attribute the file held other than "type" (unknown keys included);
\* "type" is "latlon" after the round trip whatever the file held.
C7_RoundTripButType ==
    RoundTripDone =>
        /\ DOMAIN ret.file.db = DOMAIN arg.file.db
        /\ \A i \in DOMAIN arg.file.db :
            /\ \A k \in (DOMAIN arg.file.db[i]) \ {"type"} : SameValue(i, k)
            /\ "type" \in DOMAIN ret.file.db[i]
            /\ ret.file.db[i]["type"] = "latlon"

C7_Witness ==
    /\ RoundTripDone
    /\ \E i \in DOMAIN arg.file.db :
        /\ "extra" \in DOMAIN arg.file.db[i]
        /\ arg.file.db[i]["type"] = "feature"
        /\ ret.file.db[i]["extra"] = "v"

\* The host of a URL as the claim means it: what follows the scheme's
\* "://", up to the port's ":" or the path's "/".
HostPortion(url) ==
    LET seps == {i \in 1..Len(url) : At(url, i, <<":", "/", "/">>)} IN
    IF seps = {} THEN url
    ELSE LET i    == CHOOSE k \in seps : \A l \in seps : k <= l
             stop == SkipWhile(url, i + 3,
                       {c \in {url[k] : k \in 1..Len(url)} : c \notin {"/", ":"}})
         IN  Slice(url, i + 3, stop - 1)

\* C8: two URLs of the same host are given the same id; so are
\* https://radio.example.com:8073/status and https://radio.example.com/.
C8_SameHostSameId ==
    (/\ arg.fn = "hostname" /\ ret.done
     /\ HostPortion(arg.urls[1]) = HostPortion(arg.urls[2]))
    => ret.ids[1] = ret.ids[2]

\* A complete entry of the WebSDR list.
WebValid(e) ==
    /\ {"lat", "lon", "url", "desc", "users"} \subseteq DOMAIN e
    /\ intJson(e["users"]).ok

\* The attribute comments between the anchor before line j and line j, as
\* the pending record they add up to (the later comment of a key wins).
AttrsBefore(lines, j) ==
    LET from == CHOOSE a \in 0..(j - 1) :
                    /\ a = 0 \/ lines[a].kind = "url"
                    /\ \A b \in (a + 1)..(j - 1) : lines[b].kind # "url"
        idx  == {b \in (from + 1)..(j - 1) : lines[b].kind = "attr"}
        keys == {lower(lines[b].key) : b \in idx}
    IN  [k \in keys |->
            lines[CHOOSE b \in idx :
                    /\ lower(lines[b].key) = k
                    /\ \A c \in idx : lower(lines[c].key) = k => c <= b].value]

\* A complete record of the KiwiSDR page: matching gps, every attribute the
\* entity is built from, integer counts.
KiwiValid(e) ==
    /\ "gps" \in DOMAIN e
    /\ patternGps(e["gps"]).ok
    /\ KiwiFields \subseteq DOMAIN e
    /\ \A k \in {"users", "users_max", "asl"} : int(e[k]).ok

\* C9: a record that lacks a required field or has a non-integer count is
\* skipped alone: every complete record of the same response, the ones
\* after it included, is in the scraper's result.
C9_OtherRecordsEmitted ==
    /\ (arg.fn = "scrapeWebSDR" /\ ret.done /\ arg.resp.ok) =>
        \A i \in 1..Len(arg.resp.data) :
            WebValid(arg.resp.data[i]) =>
                hostname(arg.resp.data[i]["url"]) \in DOMAIN ret.result
    /\ (arg.fn = "scrapeKiwiSDR" /\ ret.done) =>
        \A j \in 1..Len(arg.lines) :
            (arg.lines[j].kind = "url" /\ KiwiValid(AttrsBefore(arg.lines, j))) =>
                hostname(arg.lines[j].url) \in DOMAIN ret.st.result

\* "example.org"
ExampleOrg == <<"e", "x", "a", "m", "p", "l", "e", ".", "o", "r", "g">>

\* The scraper has just processed the anchor line ret.pos - 1.
AnchorProcessed ==
    /\ arg.fn = "scrapeKiwiSDR"
    /\ ret.pos > 1
    /\ arg.lines[ret.pos - 1].kind = "url"

\* The pending record at that anchor line holds gps (12.34, -56.78) and the
\* anchor's URL is http://example.org/path.
ExampleRecord ==
    /\ "gps" \in DOMAIN ret.before.entry
    /\ ret.before.entry["gps"] = GpsGood
    /\ arg.lines[ret.pos - 1].url = UrlExampleOrg

\* The line has added exactly one entity: id example.org at 12.34, -56.78.
ExampleEmitted ==
    /\ DOMAIN ret.st.result = (DOMAIN ret.before.result) \cup {ExampleOrg}
    /\ \A i \in (DOMAIN ret.before.result) \ {ExampleOrg} :
        ret.st.result[i] = ret.before.result[i]
    /\ getId(ret.st.result[ExampleOrg]) = ExampleOrg
    /\ ret.st.result[ExampleOrg]["lat"] = <<1234, 2>>
    /\ ret.st.result[ExampleOrg]["lon"] = <<0 - 5678, 2>>

RecordComplete ==
    /\ KiwiFields \subseteq DOMAIN ret.before.entry
    /\ \A k \in {"users", "users_max", "asl"} : int(ret.before.entry[k]).ok

CacheMtime == IF isfile(cacheFile) THEN cacheFile.mtime ELSE 0

\* The number of times task t has run phase in its current cycle.
TimesRun(tr, t, phase) ==
    Cardinality({i \in DOMAIN tr.cycle[t] : tr.cycle[t][i] = phase})

\* Task t ends the receivers part of an hourly iteration without having
\* been stopped.
EndsIteration(t) ==
    taskPc[t] = "rxphase" /\ taskPc'[t] \in {"loop", "crashed"}

\* C11: every hourly iteration that is not cut short by the stop signal
\* has queried the schedule once, whether the cache is stale or not, and
\* has called the scrapers if and only if the cache is stale when the
\* iteration gets to the receivers: now minus the cache file's
\* modification time is at least refreshPeriod.
C11_ScheduleAlwaysSourcesWhenStale ==
    [][\A t \in Tasks :
        EndsIteration(t) =>
            /\ TimesRun(lastOps', t, "loadtx") = 1
            /\ TimesRun(lastOps', t, "rxrebuild") =
                  (IF now - CacheMtime >= refreshPeriod THEN 1 ELSE 0)
      ]_vars

C11_Witness ==
    /\ lastOps.phase = "rxrebuild"
    /\ lastOps.task \in Tasks
    /\ taskPc[lastOps.task] = "loop"
    /\ lastOps.cycle[lastOps.task] = <<"wait", "loadtx", "difftx", "rxrebuild">>
    /\ now - cacheFile.mtime < refreshPeriod

\* The ids for which a remove is among ops.
RemovedIds(ops) == {ops[i][2] : i \in {j \in DOMAIN ops : ops[j][1] = "remove"}}

\* C12: in every hourly iteration, for the transmitters and, when a rebuild
\* ran and returned receivers, for the receivers: the ids removed from the
\* map are exactly the ids of the previous in-memory mapping that the new
\* result lacks, and afterwards the in-memory mapping holds exactly the ids
\* of the new result.
C12_RemovesExactlyVanished ==
    /\ lastOps.phase = "difftx" =>
        /\ RemovedIds(lastOps.ops) = lastOps.old \ lastOps.new
        /\ DOMAIN txmarkers = lastOps.new
    /\ (lastOps.phase = "rxrebuild" /\ lastOps.new # {}) =>
        /\ RemovedIds(lastOps.ops) = lastOps.old \ lastOps.new
        /\ rxmarkers.ok
        /\ DOMAIN rxmarkers.m = lastOps.new

\* Task t has finished a major phase and is about to begin the next one:
\* the cache rebuild, the schedule load, the repeater load, the map
\* publication, the hourly schedule diff, the hourly receivers rebuild.
BetweenPhases(t) ==
    taskPc[t] \in {"cache", "sched", "repeat", "publish", "difftx", "rxphase"}

\* C13: the stop signal is checked between the major phases: a task that
\* finds the signal raised between two phases begins no further phase and
\* issues no further map operation; its next step is to leave.
C13_NoPhaseAfterStop ==
    [][\A t \in Tasks :
        (event /\ BetweenPhases(t) /\ taskPc'[t] # taskPc[t]) =>
            (taskPc'[t] = "exit" /\ lastOps'.ops = <<>>)
      ]_vars

\* Task t decides whether to rebuild the cache: at startup, or in an hourly
\* iteration that was not stopped.
DecidesRebuild(t) ==
    \/ taskPc[t] = "cache" /\ taskPc'[t] # "cache"
    \/ EndsIteration(t)

\* C14: a cache file that exists but cannot be read or decoded is treated
\* as absent: whenever the task decides whether to rebuild and finds such a
\* file, it rebuilds from the source adapters, whatever the file's
\* modification time.
C14_UnreadableCacheRebuilt ==
    [][\A t \in Tasks :
        (cacheFile.st = "corrupt" /\ DecidesRebuild(t)) =>
            lastOps'.phase \in {"cache-rebuild", "rxrebuild"}
      ]_vars

\* C15: the static markers are loaded at startup and the static mapping is
\* not modified afterwards, and no remove is ever issued to the map for the
\* id of a static marker, whatever ids the schedule and the receiver
\* directories produce.
C15_StaticNeverRemoved ==
    [][/\ (\A t \in Tasks : taskPc[t] # "static") => markers' = markers
       /\ RemovedIds(lastOps'.ops) \cap DOMAIN markers' = {}
      ]_vars

\* C16: every refresh cycle queries the repeater provider once: the
\* startup sequence, which also publishes the repeater markers it loaded,
\* and every hourly iteration that runs to its end.
C16_RepeatersEveryCycle ==
    [][\A t \in Tasks :
        /\ (taskPc[t] = "publish" /\ taskPc'[t] = "loop") =>
            /\ TimesRun(lastOps', t, "repeat") = 1
            /\ \A i \in DOMAIN remarkers' : Count(lastOps'.ops, <<"update", i>>) >= 1
        /\ (taskPc[t] = "rxphase" /\ taskPc'[t] = "loop") =>
            TimesRun(lastOps', t, "repeat") = 1
      ]_vars

\* C17: a stop() call never fails with an error, however it interleaves
\* with the task's own exit, which clears the stored handle.
C17_StopNeverRaises == \A c \in Callers : call[c].pc # "p_raised"

\* C18: whenever a task has terminated, for whatever reason, the stored
\* handle does not name it any more, so that the next start() launches a
\* new task.
C18_HandleClearedOnExit == \A t \in Tasks : Ended(t) => thread # t

\* C19: the in-memory receiver mapping is a mapping, possibly empty, in
\* every state, never an absent value, so that a later rebuild can be
\* diffed against it.
C19_ReceiversAlwaysMapping == rxmarkers.ok

\* Task t runs a cache rebuild in this step: at startup or in an hourly
\* iteration.
Rebuilds(t) ==
    /\ taskPc'[t] # taskPc[t]
    /\ lastOps'.task = t
    /\ lastOps'.phase \in {"cache-rebuild", "rxrebuild"}

\* C20: an hourly rebuild that returns no entities leaves the cache file
\* and the staleness clock as they were, and the task goes on to its next
\* hourly iteration with the cache still stale, so that the rebuild is
\* attempted again; and a rebuild runs on a readable cache file only when
\* refreshPeriod has elapsed since the file was written.
C20_EmptyRebuildRetried ==
    [][\A t \in Tasks :
        /\ (Rebuilds(t) /\ lastOps'.phase = "rxrebuild" /\ lastOps'.new = {}) =>
            /\ taskPc'[t] = "loop"
            /\ cacheFile' = cacheFile
            /\ now' - ts'[t] >= refreshPeriod
        /\ (Rebuilds(t) /\ cacheFile.st = "ok") =>
            now - cacheFile.mtime >= refreshPeriod
      ]_vars

====
